---- MODULE Spec2Model ----
(***************************************************************************)
(* A model of simple-email-polling: the mailbox watcher                    *)
(* (src/src/emailService.js), the code store (database.js, kept as         *)
(* src/unnamed/part_000) and the query surface (src/src/server.js).        *)
(*                                                                         *)
(* One action is one turn of the Node.js event loop: an event handler or   *)
(* a callback together with the promise continuations it releases, which   *)
(* run as microtasks before any other event is handled.                    *)
(***************************************************************************)
EXTENDS Integers, Sequences, FiniteSets, TLC

(***************************************************************************)
(* Bounds of the model.                                                    *)
(***************************************************************************)
\* Imap objects that hold listeners or outstanding callbacks at one time.
MaxConn == 2
\* Outstanding commands of one kind on one Imap object.
MaxPending == 1
\* Messages delivered to the mailbox.
MaxMsgs == 2
\* processEmail invocations.
MaxProcs == 2
\* Retrieval requests made of the query surface.
MaxCalls == 2
\* Fault handlers counted between two connect() calls.
MaxFaults == 2
\* Days the clock runs for, and clock ticks in a day.
MaxDay == 8
TicksPerDay == 2
\* Messages arrive on days 0..MaxDeliverDay.
MaxDeliverDay == 0
\* Fragments a message text is made of.
MaxFrags == 3

(***************************************************************************)
(* Program constants.                                                      *)
(***************************************************************************)
maxReconnectAttempts == 10
reconnectDelay == 5000
maxDelay == 60000
\* cleanupOldEmails(7) in startService
retentionDays == 7

Conns == 1..MaxConn
\* this.imap = null
NoImap == 0

Min(a, b) == IF a <= b THEN a ELSE b

VARIABLES
  svc,        \* the SimpleEmailService object's fields
  conn,       \* the Imap objects: connection state, listeners, commands in flight
  timers,     \* pending setTimeout reconnect timers (their delays, in ms)
  intervals,  \* live setInterval heartbeat timers
  main,       \* where startup stands: the database opening, then startService
  cleanupAt,  \* when the 24-hour cleanup interval of startService fires next
  crashed,    \* an exception left a callback uncaught: the process is gone
  armed,      \* history: reconnects scheduled since the last 'ready' handler ran
  faults,     \* history: fault handlers run since the last connect(), up to MaxFaults
  mbox,       \* the INBOX on the server: mbox[uid] is the message with that uid
  procs,      \* the processEmail invocations and where each one stands
  now,        \* the clock: [d |-> day, s |-> tick of the day]
  emails,     \* rows of table emails
  codes,      \* rows of table codes
  codeSeq,    \* the AUTOINCREMENT sequence of codes.id
  inserts,    \* INSERT INTO codes statements handed to sqlite3, not yet run
  marks,      \* UPDATE codes SET used = TRUE statements handed over, not yet run
  calls,      \* the retrieval requests and where each one stands
  job         \* cleanupOldEmails: where it stands, and its cutoff

wvars == <<svc, conn, timers, intervals, crashed, armed, faults>>
dbvars == <<emails, codes, codeSeq, inserts, marks, calls, job>>
vars == <<svc, conn, timers, intervals, main, cleanupAt, crashed, armed, faults, mbox, procs, now,
          emails, codes, codeSeq, inserts, marks, calls, job>>

\* An Imap object slot that holds nothing.
FreeConn ==
  [st |-> "free", lis |-> {}, mail |-> 0, by |-> "none", settled |-> FALSE,
   boxOpen |-> FALSE, box |-> 0, srch |-> 0, noop |-> 0, ftch |-> <<>>,
   flag |-> <<>>]

\* new Imap(...), the three once-listeners and imap.connect() of connect().
NewConn(by) ==
  [st |-> "connecting", lis |-> {"ready", "error", "end"}, mail |-> 0, by |-> by,
   settled |-> FALSE, boxOpen |-> FALSE, box |-> 0, srch |-> 0, noop |-> 0,
   ftch |-> <<>>, flag |-> <<>>]

\* The in-memory state the watcher's methods read and write, as one value.
Watcher ==
  [svc |-> svc, conn |-> conn, timers |-> timers, intervals |-> intervals,
   crashed |-> crashed, faults |-> faults]

(***************************************************************************)
(* Text. A string is a sequence of one-character strings.                  *)
(***************************************************************************)
Digits == {"0", "1", "2", "3", "4", "5", "6", "7", "8", "9"}
LowerCase == <<"a", "b", "c", "d", "e", "f", "g", "h", "i", "j", "k", "l", "m",
               "n", "o", "p", "q", "r", "s", "t", "u", "v", "w", "x", "y", "z">>
UpperCase == <<"A", "B", "C", "D", "E", "F", "G", "H", "I", "J", "K", "L", "M",
               "N", "O", "P", "Q", "R", "S", "T", "U", "V", "W", "X", "Y", "Z">>
Range(f) == {f[i] : i \in DOMAIN f}
\* \w of a JavaScript regular expression
WordChars == Digits \cup Range(LowerCase) \cup Range(UpperCase) \cup {"_"}
\* [:\s] of the label patterns
LabelSeps == {":", " ", "\t", "\n", "\r"}
\* The i flag: letters compare by their lower case.
Lower(ch) ==
  IF ch \in Range(UpperCase)
  THEN LowerCase[CHOOSE i \in DOMAIN UpperCase : UpperCase[i] = ch]
  ELSE ch

\* The length of the longest run of characters of S that starts at t[i].
Run(t, i, S) ==
  CHOOSE n \in 0..Len(t) :
    /\ \A k \in i..(i + n - 1) : k <= Len(t) /\ t[k] \in S
    /\ (i + n > Len(t) \/ t[i + n] \notin S)

NoMatch == [lo |-> 0, hi |-> 0]

\* /label[:\s]*(\d{4,8})/gi matches at i: the label, the separators after it
\* (all of them: the next character must be a digit) and four to eight digits,
\* as many as there are.
LabelMatchAt(t, i, label) ==
  /\ i + Len(label) - 1 <= Len(t)
  /\ \A k \in 1..Len(label) : Lower(t[i + k - 1]) = label[k]
  /\ LET j == i + Len(label) + Run(t, i + Len(label), LabelSeps)
     IN Run(t, j, Digits) >= 4

\* matches[0] of text.match(/label[:\s]*(\d{4,8})/gi): the leftmost match.
matchLabel(t, label) ==
  LET at == {i \in 1..Len(t) : LabelMatchAt(t, i, label)} IN
  IF at = {} THEN NoMatch
  ELSE LET i == CHOOSE x \in at : \A y \in at : x <= y
           j == i + Len(label) + Run(t, i + Len(label), LabelSeps)
       IN [lo |-> i, hi |-> j + Min(8, Run(t, j, Digits)) - 1]

\* /\b(\d{n})\b/g matches at i: n digits with a word boundary on each side.
BareMatchAt(t, i, n) ==
  /\ i + n - 1 <= Len(t)
  /\ \A k \in i..(i + n - 1) : t[k] \in Digits
  /\ (i = 1 \/ t[i - 1] \notin WordChars)
  /\ (i + n - 1 = Len(t) \/ t[i + n] \notin WordChars)

\* matches[0] of text.match(/\b(\d{n})\b/g)
matchBare(t, n) ==
  LET at == {i \in 1..Len(t) : BareMatchAt(t, i, n)} IN
  IF at = {} THEN NoMatch
  ELSE LET i == CHOOSE x \in at : \A y \in at : x <= y
       IN [lo |-> i, hi |-> i + n - 1]

\* The five patterns of extractCode, in order.
patterns == 1..5
matchPattern(t, k) ==
  CASE k = 1 -> matchLabel(t, <<"c", "o", "d", "e">>)
    [] k = 2 -> matchLabel(t, <<"2", "f", "a">>)
    [] k = 3 -> matchLabel(t, <<"v", "e", "r", "i", "f", "i", "c", "a", "t", "i", "o", "n">>)
    [] k = 4 -> matchBare(t, 6)
    [] k = 5 -> matchBare(t, 4)

IsDigit(ch) == ch \in Digits
\* matches[0].replace(/\D/g, '')
stripNonDigits(t, m) == SelectSeq(SubSeq(t, m.lo, m.hi), IsDigit)

\* The pattern stage takes the code: it matched and what is left of its first
\* match has four to eight digits.
StageTakes(t, k) ==
  /\ matchPattern(t, k) # NoMatch
  /\ Len(stripNonDigits(t, matchPattern(t, k))) >= 4
  /\ Len(stripNonDigits(t, matchPattern(t, k))) <= 8

NoCode == <<>>
\* For comparison: with no stage taking the code, the digits of the whole
\* text are the code when there are four to eight of them.
extractedCodeAnyDigits(t) ==
  LET takes == {k \in patterns : StageTakes(t, k)}
      all == SelectSeq(t, IsDigit)
  IN IF takes # {}
     THEN stripNonDigits(t, matchPattern(t, CHOOSE k \in takes : \A j \in takes : k <= j))
     ELSE IF Len(all) >= 4 /\ Len(all) <= 8 THEN all ELSE NoCode
\* The code extractCode stores for the text, or NoCode: the loop over the
\* patterns returns at the first stage that takes the code.
extractedCode(t) ==
  LET takes == {k \in patterns : StageTakes(t, k)} IN
  IF takes = {} THEN NoCode
  ELSE stripNonDigits(t, matchPattern(t, CHOOSE k \in takes : \A j \in takes : k <= j))

\* const text = email.bodyText + ' ' + email.subject
combinedText(bodyText, subject) == bodyText \o <<" ">> \o subject

\* The texts extractCode is tried on: the examples of the documentation and
\* every text of up to MaxFrags fragments.
Fragments ==
  { <<"c", "o", "d", "e", ":", " ">>,
    <<"2", "f", "a", ":", " ">>,
    <<"V", "e", "r", "i", "f", "i", "c", "a", "t", "i", "o", "n", " ">>,
    <<"4", "3", "2", "1", " ">>,
    <<"9", "9", "9", "9", "9", "9", " ">>,
    <<"1", "2", "3", "4", "5", "6", "7", "8", " ">>,
    <<"x">> }
Examples ==
  { <<"c", "o", "d", "e", ":", " ", "4", "3", "2", "1", " ",
      "9", "9", "9", "9", "9", "9">>,
    <<"2", "f", "a", ":", " ", "1", "2", "3", "4", "5", "6">>,
    <<"Y", "o", "u", "r", " ", "v", "e", "r", "i", "f", "i", "c", "a", "t", "i",
      "o", "n", ":", " ", "0", "8", "3", "9", "2", "1">>,
    <<"H", "e", "l", "l", "o", ",", " ", "o", "r", "d", "e", "r", " ", "#",
      "1", "2", "3", "4", "5", " ", "s", "h", "i", "p", "p", "e", "d">> }
RECURSIVE Concat(_)
Concat(fs) == IF fs = <<>> THEN <<>> ELSE Head(fs) \o Concat(Tail(fs))
Texts ==
  Examples \cup UNION {{Concat(fs) : fs \in [1..n -> Fragments]} : n \in 1..MaxFrags}
Subjects == {<<>>, <<"5", "5", "5", "5">>}

(***************************************************************************)
(* The watcher's methods, as functions of the in-memory state.             *)
(***************************************************************************)

\* A backoff that doubles instead of growing by reconnectDelay each time.
delayDoubling(n) == Min(reconnectDelay * (2 ^ (n - 1)), maxDelay)

\* Math.min(this.reconnectDelay * this.reconnectAttempts, 60000)
delay(n) == Min(reconnectDelay * n, maxDelay)

\* cleanup(): the heartbeat interval is cleared and the current Imap object
\* loses every listener, is asked to end unless already disconnected, and is
\* dropped. end() sends LOGOUT behind the commands already queued, so their
\* callbacks may still arrive while the object is "ending".
cleanup(w) ==
  LET i == w.svc.imap IN
  [w EXCEPT !.svc.isConnected = FALSE,
            !.svc.heartbeatInterval = FALSE,
            !.svc.imap = NoImap,
            !.intervals = IF w.svc.heartbeatInterval THEN @ - 1 ELSE @,
            !.conn = IF i = NoImap THEN @
                     ELSE [@ EXCEPT ![i].lis = {}, ![i].mail = 0,
                                    ![i].st = IF @ \in {"connecting", "authenticated"}
                                              THEN "ending" ELSE @]]

\* scheduleReconnect with the budget test off by one (> for >=).
scheduleReconnectPastBudget(w) ==
  IF w.svc.reconnectAttempts > maxReconnectAttempts THEN w
  ELSE [w EXCEPT !.svc.isReconnecting = TRUE,
                 !.svc.reconnectAttempts = @ + 1,
                 !.timers = Append(@, delay(w.svc.reconnectAttempts + 1))]

\* scheduleReconnect without this.reconnectAttempts++.
scheduleReconnectNoCount(w) ==
  IF w.svc.reconnectAttempts >= maxReconnectAttempts THEN w
  ELSE [w EXCEPT !.svc.isReconnecting = TRUE,
                 !.timers = Append(@, delay(w.svc.reconnectAttempts + 1))]

\* scheduleReconnect(): nothing once the budget is used; otherwise the flag,
\* the counter and one setTimeout.
scheduleReconnect(w) ==
  IF w.svc.reconnectAttempts >= maxReconnectAttempts THEN w
  ELSE [w EXCEPT !.svc.isReconnecting = TRUE,
                 !.svc.reconnectAttempts = @ + 1,
                 !.timers = Append(@, delay(w.svc.reconnectAttempts + 1))]

\* One more fault handler has run (history only).
Fault(w) == [w EXCEPT !.faults = Min(@ + 1, MaxFaults)]

\* handleConnectionError without the isReconnecting test.
handleConnectionErrorUnguarded(w) == scheduleReconnect(cleanup(Fault(w)))

\* handleConnectionError(err)
handleConnectionError(w) ==
  LET w1 == cleanup(Fault(w)) IN
  IF ~w1.svc.isReconnecting THEN scheduleReconnect(w1) ELSE w1

\* handleConnectionEnd()
handleConnectionEnd(w) ==
  LET w1 == cleanup(Fault(w)) IN
  IF ~w1.svc.isReconnecting THEN scheduleReconnect(w1) ELSE w1

\* startHeartbeat(): the interval held is cleared, a new one is set.
startHeartbeat(w) ==
  [w EXCEPT !.intervals = (IF w.svc.heartbeatInterval THEN @ - 1 ELSE @) + 1,
            !.svc.heartbeatInterval = TRUE]

\* startListening(): this.imap.openBox('INBOX', false, callback). With no
\* Imap object, or one that is not authenticated, the call throws.
startListening(w) ==
  LET i == w.svc.imap IN
  IF i = NoImap \/ w.conn[i].st # "authenticated"
  THEN [w EXCEPT !.crashed = TRUE]
  ELSE [w EXCEPT !.conn[i].box = @ + 1]

\* connect(): a new Imap object replaces this.imap (no cleanup of the one
\* held), with its 'ready', 'error' and 'end' once-listeners; `by` is the
\* caller awaiting the promise (startService or reconnect).
connect(w, c, by) ==
  [w EXCEPT !.svc.imap = c, !.conn[c] = NewConn(by), !.faults = 0]

\* The catch block of reconnect(), run when the awaited connect() rejects.
reconnectCatch(w) ==
  scheduleReconnect([Fault(w) EXCEPT !.svc.isReconnecting = FALSE])

\* resolve() of connect()'s promise: a settled promise stays as it is;
\* reconnect() only logs.
resolve(w, c) ==
  IF w.conn[c].settled THEN w ELSE [w EXCEPT !.conn[c].settled = TRUE]

\* reject(err) of connect()'s promise: startService logs, reconnect() runs
\* its catch block.
reject(w, c) ==
  IF w.conn[c].settled THEN w
  ELSE LET w1 == [w EXCEPT !.conn[c].settled = TRUE] IN
       IF w.conn[c].by = "reconnect" THEN reconnectCatch(w1) ELSE w1

\* The 'ready' once-listener of connect().
onReady(w, c) ==
  LET w1 == [w EXCEPT !.conn[c].lis = @ \ {"ready"},
                      !.svc.isConnected = TRUE,
                      !.svc.reconnectAttempts = 0,
                      !.svc.isReconnecting = FALSE]
      w2 == startListening(w1)
  IN IF w2.crashed THEN w2 ELSE resolve(w2, c)

\* The 'error' once-listener of connect().
onError(w, c) ==
  LET w1 == [w EXCEPT !.conn[c].lis = @ \ {"error"},
                      !.svc.isConnected = FALSE]
  IN reject(handleConnectionError(w1), c)

\* The 'end' once-listener of connect().
onEnd(w, c) ==
  LET w1 == [w EXCEPT !.conn[c].lis = @ \ {"end"},
                      !.svc.isConnected = FALSE]
  IN handleConnectionEnd(w1)

\* fetchLatestEmail() up to its imap.search call: nothing when not connected;
\* the search throws on an Imap object with no mailbox open.
fetchLatestEmail(w) ==
  LET i == w.svc.imap IN
  IF ~w.svc.isConnected \/ i = NoImap THEN w
  ELSE IF ~w.conn[i].boxOpen THEN [w EXCEPT !.crashed = TRUE]
  ELSE [w EXCEPT !.conn[i].srch = @ + 1]

\* The 'mail' listeners of an Imap object, each a call of fetchLatestEmail.
RECURSIVE onMail(_, _)
onMail(w, n) == IF n = 0 THEN w ELSE onMail(fetchLatestEmail(w), n - 1)

\* this.imap.fetch([latestUid], ...) in the search callback: it throws with
\* no Imap object and on one with no mailbox open.
fetchThrows(w) == w.svc.imap = NoImap \/ ~w.conn[w.svc.imap].boxOpen
fetch(w, uid) ==
  IF fetchThrows(w) THEN [w EXCEPT !.crashed = TRUE]
  ELSE [w EXCEPT !.conn[w.svc.imap].ftch = Append(@, uid)]

\* markEmailAsRead(uid): this.imap.addFlags throws with no Imap object and on
\* one with no mailbox open; processEmail's try block catches it.
markThrows(w) == w.svc.imap = NoImap \/ ~w.conn[w.svc.imap].boxOpen
markEmailAsRead(w, uid) ==
  IF markThrows(w) THEN w
  ELSE [w EXCEPT !.conn[w.svc.imap].flag = Append(@, uid)]

\* The openBox callback of startListening on success: the 'mail' listener is
\* put on this.imap, which throws with no Imap object, then startHeartbeat.
onBoxOpen(w) ==
  IF w.svc.imap = NoImap THEN [w EXCEPT !.crashed = TRUE]
  ELSE startHeartbeat([w EXCEPT !.conn[w.svc.imap].mail = @ + 1])

\* getStatus()
getStatus ==
  [connected |-> svc.isConnected, reconnectAttempts |-> svc.reconnectAttempts,
   isReconnecting |-> svc.isReconnecting]

(***************************************************************************)
(* Bookkeeping of the model.                                               *)
(***************************************************************************)

\* An Imap object whose socket has ended and which the service no longer
\* holds can do nothing more: its slot is free again.
Release(w) ==
  [w EXCEPT !.conn = [c \in Conns |->
     IF w.conn[c].st = "disconnected" /\ w.svc.imap # c THEN FreeConn ELSE w.conn[c]]]

FreeSlots == {c \in Conns : conn[c].st = "free"}
\* The slot a new Imap object takes.
NextSlot == CHOOSE c \in FreeSlots : \A d \in FreeSlots : c <= d

RemoveAt(s, i) == [j \in 1..(Len(s) - 1) |-> IF j < i THEN s[j] ELSE s[j + 1]]

\* The state after a turn of the event loop. ev says whether the turn ran the
\* 'ready' handler or fired a reconnect timer.
Commit(w0, ev) ==
  LET w == Release(w0) IN
  /\ svc' = w.svc
  /\ conn' = w.conn
  /\ timers' = w.timers
  /\ intervals' = w.intervals
  /\ crashed' = w.crashed
  /\ faults' = w.faults
  /\ armed' = IF ev = "ready" THEN 0
              ELSE armed + Len(w.timers) - (Len(timers) - IF ev = "fire" THEN 1 ELSE 0)

(***************************************************************************)
(* The mailbox and the messages delivered to it.                           *)
(***************************************************************************)
\* emailConfig.email
Account == "acct"
\* :fromAddress and :toAddress of the requests made
FromAsked == {"a"}
ToAsked == {"y"}

\* The messages that may arrive.
Samples ==
  { [from |-> "a", to |-> "x", subject |-> <<>>,
     body |-> <<"c", "o", "d", "e", " ", "4", "3", "2", "1">>],
    [from |-> "b", to |-> "y", subject |-> <<"1", "2", "3", "4", "5", "6">>,
     body |-> <<"p", "i", "n">>],
    [from |-> "a", to |-> "y", subject |-> <<"h", "i">>,
     body |-> <<"n", "o", "n", "e">>] }

\* The messages among them that carry a code.
CodeSamples ==
  {m \in Samples : extractedCode(combinedText(m.body, m.subject)) # NoCode}

\* ['UNSEEN', ['SINCE', fiveMinutesAgo]]: SINCE compares dates, not times; five
\* minutes are less than a tick of the clock.
searchResults == {u \in 1..Len(mbox) : ~mbox[u].seen /\ mbox[u].date >= now.d}
\* results[results.length - 1]
latestUid == CHOOSE u \in searchResults : \A v \in searchResults : u >= v

(***************************************************************************)
(* Timestamps. A timestamp text is <<date, separator, time of day>>; texts  *)
(* compare as strings do, character by character.                          *)
(***************************************************************************)
\* CURRENT_TIMESTAMP of SQLite: 'YYYY-MM-DD HH:MM:SS'
currentTimestamp(t) == <<t.d, 32, t.s>>
\* Date.prototype.toISOString(): 'YYYY-MM-DDTHH:MM:SS.sssZ'
toISOString(t) == <<t.d, 84, t.s>>
\* a < b of SQLite on two TEXT values
textLess(a, b) ==
  \E i \in 1..3 : a[i] < b[i] /\ \A j \in 1..(i - 1) : a[j] = b[j]
\* new Date(Date.now() - olderThanDays * 24 * 60 * 60 * 1000).toISOString()
cutoffDate(t, olderThanDays) == toISOString([d |-> t.d - olderThanDays, s |-> t.s])

(***************************************************************************)
(* The store (SimpleDatabase).                                             *)
(***************************************************************************)
\* INSERT OR REPLACE INTO emails, for comparison: the row takes the place of
\* the rows it conflicts with.
insertOrReplace(tbl, row) ==
  {r \in tbl : ~(r.id = row.id
                 \/ (r.email_account = row.email_account /\ r.uid = row.uid))}
    \cup {row}

\* INSERT OR IGNORE INTO emails: the row is dropped when its id (PRIMARY KEY)
\* or its (email_account, uid) pair (UNIQUE) is taken.
insertOrIgnore(tbl, row) ==
  IF \E r \in tbl : r.id = row.id
                    \/ (r.email_account = row.email_account /\ r.uid = row.uid)
  THEN tbl ELSE tbl \cup {row}

\* if (inserted) { ...; this.extractCode(email, uid); } in processEmail
extractsAlways(inserted) == TRUE
extracts(inserted) == inserted

\* The email object processEmail builds for process p, as the row insertEmail
\* stores; uuidv4() is a value no other invocation gets.
emailRow(p, uid, t) ==
  [id |-> p, email_account |-> Account, subject |-> mbox[uid].subject,
   from_address |-> mbox[uid].from, to_address |-> mbox[uid].to,
   body_text |-> mbox[uid].body, uid |-> uid, created_at |-> t]

NoRow == [id |-> 0, email_id |-> 0, code |-> NoCode, used |-> FALSE,
          created_at |-> [d |-> 0, s |-> 0]]

\* The WHERE clauses without the test of e.from_address, for comparison.
selectableAnySender(kind, arg) ==
  {c \in codes : /\ c.used = FALSE
                 /\ \E e \in emails :
                      /\ c.email_id = e.id
                      /\ CASE kind = "account" -> e.email_account = arg
                           [] kind = "from" -> e.email_account = Account
                           [] kind = "to" -> e.to_address = arg}

\* The WHERE clauses of getLastCode, getLastCodeByFromAddress and
\* getLastCodeByToAddress over codes c JOIN emails e ON c.email_id = e.id.
selectable(kind, arg) ==
  {c \in codes : /\ c.used = FALSE
                 /\ \E e \in emails :
                      /\ c.email_id = e.id
                      /\ CASE kind = "account" -> e.email_account = arg
                           [] kind = "from" -> e.email_account = Account /\ e.from_address = arg
                           [] kind = "to" -> e.to_address = arg}

\* ORDER BY c.created_at DESC LIMIT 1: the rows that may come first.
lastRows(kind, arg) ==
  {c \in selectable(kind, arg) :
     \A x \in selectable(kind, arg) :
        ~textLess(currentTimestamp(c.created_at), currentTimestamp(x.created_at))}

\* SELECT * FROM emails WHERE email_account = ? ORDER BY created_at DESC
\* LIMIT 1: the rows that may come first.
lastEmails(account) ==
  {e \in emails :
     /\ e.email_account = account
     /\ \A x \in emails :
          x.email_account = account
            => ~textLess(currentTimestamp(e.created_at), currentTimestamp(x.created_at))}

\* What a retrieval route sends: res.status(500).json({success: false, error})
\* when the awaited promise rejected, res.json({success: true, data: null})
\* when it resolved with no row, res.json({success: true, data: row})
\* otherwise. The error text is the route's own.
respondNotFoundAsError(err, row, text) ==
  IF err \/ row = NoRow THEN [status |-> 500, success |-> FALSE, error |-> text]
  ELSE [status |-> 200, success |-> TRUE, data |-> row]
respond(err, row, text) ==
  IF err THEN [status |-> 500, success |-> FALSE, error |-> text]
  ELSE IF row = NoRow THEN [status |-> 200, success |-> TRUE, data |-> NoRow]
  ELSE [status |-> 200, success |-> TRUE, data |-> row]

\* The error text of each route.
errorText(kind) ==
  CASE kind = "email" -> "Failed to get last email"
    [] kind = "account" -> "Failed to get last code"
    [] kind = "from" -> "Failed to get last code from sender"
    [] kind = "to" -> "Failed to get last code for recipient"

\* UPDATE codes SET used = TRUE WHERE id = ?
markCodeAsUsed(tbl, codeId) ==
  {IF c.id = codeId THEN [c EXCEPT !.used = TRUE] ELSE c : c \in tbl}

\* SELECT id FROM emails WHERE created_at < ?
olderThan(cutoff) ==
  {e \in emails : textLess(currentTimestamp(e.created_at), cutoff)}

\* A migration that writes the default into every row, for comparison.
resetUsedColumn(tbl) ==
  {[x \in DOMAIN c \cup {"used"} |-> IF x = "used" THEN FALSE ELSE c[x]] : c \in tbl}

\* ALTER TABLE codes ADD COLUMN used BOOLEAN DEFAULT FALSE in createTables:
\* on a table that has the column the statement fails and the error is
\* ignored; on one without it every row gets the default.
addUsedColumn(tbl) ==
  IF \A c \in tbl : "used" \in DOMAIN c THEN tbl
  ELSE {[x \in DOMAIN c \cup {"used"} |-> IF x = "used" THEN FALSE ELSE c[x]] : c \in tbl}

\* cleanupOldEmails without its first DELETE, for comparison.
deleteNoCodes(tbl, cutoff) == tbl

\* DELETE FROM codes WHERE email_id IN (SELECT id FROM emails WHERE
\* created_at < ?)
deleteCodes(tbl, cutoff) ==
  {c \in tbl : c.email_id \notin {e.id : e \in olderThan(cutoff)}}

(***************************************************************************)
(* Bookkeeping of the processes of the model.                              *)
(***************************************************************************)
Procs == 1..MaxProcs
Calls == 1..MaxCalls
IdleProc == [pc |-> "idle", uid |-> 0, inserted |-> FALSE, code |-> NoCode,
             read |-> "no"]
IdleCall == [pc |-> "idle", kind |-> "account", arg |-> Account, row |-> NoRow,
             err |-> FALSE, prior |-> {}]
FreeProcs == {p \in Procs : procs[p].pc = "idle"}
NextProc == CHOOSE p \in FreeProcs : \A q \in FreeProcs : p <= q
FreeCalls == {k \in Calls : calls[k].pc = "idle"}
NextCall == CHOOSE k \in FreeCalls : \A j \in FreeCalls : k <= j
\* The code ids the query surface has answered with.
Answered ==
  {calls[k].row.id :
     k \in {j \in Calls : calls[j].pc = "done" /\ calls[j].kind # "email"}} \ {0}

\* No command, statement or parse is under way.
Quiescent ==
  /\ \A p \in Procs : procs[p].pc \in {"idle", "done", "failed"}
  /\ \A k \in Calls : calls[k].pc \in {"idle", "done"}
  /\ inserts = {} /\ marks = {} /\ job.pc = "idle"
  /\ \A c \in Conns : /\ conn[c].box = 0 /\ conn[c].srch = 0 /\ conn[c].noop = 0
                      /\ conn[c].ftch = <<>> /\ conn[c].flag = <<>>

(***************************************************************************)
(* Initial state: the constructors of SimpleDatabase (an empty store) and  *)
(* of SimpleEmailService, before app.listen calls startService.            *)
(***************************************************************************)
Constructed ==
  /\ svc = [imap |-> NoImap, isConnected |-> FALSE, reconnectAttempts |-> 0,
            heartbeatInterval |-> FALSE, isReconnecting |-> FALSE]
  /\ conn = [c \in Conns |-> FreeConn]
  /\ timers = <<>>
  /\ intervals = 0
  /\ main = "init"
  /\ cleanupAt = [d |-> 0, s |-> 0]
  /\ crashed = FALSE
  /\ armed = 0
  /\ faults = 0
  /\ procs = [p \in Procs |-> IdleProc]
  /\ now = [d |-> 0, s |-> 0]
  /\ emails = {}
  /\ codes = {}
  /\ codeSeq = 0
  /\ inserts = {}
  /\ marks = {}
  /\ calls = [k \in Calls |-> IdleCall]
  /\ job = [pc |-> "idle", cutoff |-> <<0, 0, 0>>, removed |-> 0]

\* The service starts on an empty INBOX.
Init == Constructed /\ mbox = <<>>

\* The service starts on an INBOX that holds one unread message of today,
\* with any of the texts.
InitExtract ==
  /\ Constructed
  /\ \E b \in Texts, sub \in Subjects :
       mbox = <<[from |-> "a", to |-> "x", subject |-> sub, body |-> b,
                 date |-> 0, seen |-> FALSE]>>

\* The process starts on the store a run of eight days ago left in
\* ./data/simple.db: one message, read since, and its code. The database is
\* being opened (main = "opening"); createTables runs once it is.
OldStamp == [d |-> 0 - (retentionDays + 1), s |-> 0]
\* The code as that run may have left it: consumed or not, or in a codes
\* table made before the column `used` was introduced.
OldCodes ==
  {[id |-> 1, email_id |-> 0, code |-> <<"4", "3", "2", "1">>, used |-> u,
    created_at |-> OldStamp] : u \in BOOLEAN}
    \cup {[id |-> 1, email_id |-> 0, code |-> <<"4", "3", "2", "1">>,
           created_at |-> OldStamp]}
InitRetain ==
  /\ svc = [imap |-> NoImap, isConnected |-> FALSE, reconnectAttempts |-> 0,
            heartbeatInterval |-> FALSE, isReconnecting |-> FALSE]
  /\ conn = [c \in Conns |-> FreeConn]
  /\ timers = <<>> /\ intervals = 0 /\ main = "opening"
  /\ cleanupAt = [d |-> 0, s |-> 0]
  /\ crashed = FALSE /\ armed = 0 /\ faults = 0
  /\ procs = [p \in Procs |-> IdleProc]
  /\ now = [d |-> 0, s |-> 0]
  /\ mbox = <<[from |-> "a", to |-> "x", subject |-> <<>>,
               body |-> <<"c", "o", "d", "e", " ", "4", "3", "2", "1">>,
               date |-> OldStamp.d, seen |-> TRUE]>>
  /\ emails = {[id |-> 0, email_account |-> Account, subject |-> <<>>,
                from_address |-> "a", to_address |-> "x",
                body_text |-> <<"c", "o", "d", "e", " ", "4", "3", "2", "1">>,
                uid |-> 1, created_at |-> OldStamp]}
  /\ codes \in {{r} : r \in OldCodes}
  /\ codeSeq = 1
  /\ inserts = {} /\ marks = {}
  /\ calls = [k \in Calls |-> IdleCall]
  /\ job = [pc |-> "idle", cutoff |-> <<0, 0, 0>>, removed |-> 0]

(***************************************************************************)
(* Connection lifecycle.                                                   *)
(***************************************************************************)

\* The database is open: createTables() runs, and startService can start.
createTables ==
  /\ ~crashed /\ main = "opening"
  /\ main' = "init"
  /\ codes' = addUsedColumn(codes)
  /\ UNCHANGED <<wvars, cleanupAt, mbox, procs, now, emails, codeSeq, inserts, marks,
                 calls, job>>

\* startService(): await emailService.connect().
StartService ==
  /\ ~crashed /\ main = "init"
  /\ FreeSlots # {}
  /\ main' = "connect"
  /\ Commit(connect(Watcher, NextSlot, "start"), "other")
  /\ UNCHANGED <<cleanupAt, mbox, procs, now, dbvars>>

\* A reconnect timer fires: reconnect() awaits connect().
ReconnectTimer ==
  /\ ~crashed
  /\ FreeSlots # {}
  /\ \E i \in 1..Len(timers) :
       Commit(connect([Watcher EXCEPT !.timers = RemoveAt(timers, i)],
                      NextSlot, "reconnect"), "fire")
  /\ UNCHANGED <<main, cleanupAt, mbox, procs, now, dbvars>>

\* cleanupOldEmails(7) is called: the first DELETE is handed to sqlite3.
cleanupOldEmails == [pc |-> "codes", cutoff |-> cutoffDate(now, retentionDays),
                     removed |-> 0]

\* The handshake of Imap object c succeeds: node-imap emits 'ready'. When the
\* promise startService awaits resolves, startService goes on to its first
\* cleanupOldEmails(7).
ImapReady(c) ==
  /\ ~crashed
  /\ conn[c].st = "connecting"
  /\ LET fires == "ready" \in conn[c].lis
         w == [Watcher EXCEPT !.conn[c].st = "authenticated"]
         w2 == IF fires THEN onReady(w, c) ELSE w
     IN /\ Commit(w2, IF fires THEN "ready" ELSE "other")
        /\ IF fires /\ ~w2.crashed /\ conn[c].by = "start" /\ ~conn[c].settled
           THEN main' = "cleanup" /\ job' = cleanupOldEmails
           ELSE UNCHANGED <<main, cleanupAt, job>>
  /\ UNCHANGED <<cleanupAt, mbox, procs, now, emails, codes, codeSeq, inserts, marks,
                 calls>>

\* node-imap emits 'error' on Imap object c (socket error, failed login,
\* timeout). With no listener left the emit throws. When the promise
\* startService awaits rejects, startService logs and ends.
ImapError(c) ==
  /\ ~crashed
  /\ conn[c].st \in {"connecting", "authenticated", "ending"}
  /\ IF "error" \in conn[c].lis
     THEN /\ Commit(onError(Watcher, c), "other")
          /\ main' = IF conn[c].by = "start" /\ ~conn[c].settled THEN "failed" ELSE main
     ELSE /\ Commit([Watcher EXCEPT !.crashed = TRUE], "other")
          /\ UNCHANGED main
  /\ UNCHANGED <<cleanupAt, mbox, procs, now, dbvars>>

\* The socket of Imap object c ends: node-imap emits 'end'; no callback of a
\* command still queued on it is called afterwards.
ImapEnd(c) ==
  /\ ~crashed
  /\ conn[c].st \in {"connecting", "authenticated", "ending"}
  /\ LET w == [Watcher EXCEPT !.conn[c].st = "disconnected", !.conn[c].box = 0,
                              !.conn[c].srch = 0, !.conn[c].noop = 0,
                              !.conn[c].ftch = <<>>, !.conn[c].flag = <<>>] IN
     IF "end" \in conn[c].lis THEN Commit(onEnd(w, c), "other")
     ELSE Commit(w, "other")
  /\ UNCHANGED <<main, cleanupAt, mbox, procs, now, dbvars>>

\* A command queued on Imap object c can be answered.
Answering(c) == conn[c].st \in {"authenticated", "ending"}

\* openBox succeeds on Imap object c: the callback of startListening.
OpenBoxOk(c) ==
  /\ ~crashed /\ Answering(c) /\ conn[c].box > 0
  /\ LET w == [Watcher EXCEPT !.conn[c].box = @ - 1, !.conn[c].boxOpen = TRUE] IN
     /\ w.svc.imap # NoImap => w.conn[w.svc.imap].mail < MaxConn
     /\ Commit(onBoxOpen(w), "other")
  /\ UNCHANGED <<main, cleanupAt, mbox, procs, now, dbvars>>

\* openBox fails on Imap object c: the callback logs and returns.
OpenBoxError(c) ==
  /\ ~crashed /\ Answering(c) /\ conn[c].box > 0
  /\ Commit([Watcher EXCEPT !.conn[c].box = @ - 1], "other")
  /\ UNCHANGED <<main, cleanupAt, mbox, procs, now, dbvars>>

\* The heartbeat interval fires.
HeartbeatTick ==
  /\ ~crashed /\ intervals > 0
  /\ IF svc.isConnected /\ svc.imap # NoImap
     THEN \E idle \in BOOLEAN :
            IF idle THEN UNCHANGED wvars
            ELSE /\ conn[svc.imap].noop < MaxPending
                 /\ Commit([Watcher EXCEPT !.conn[svc.imap].noop = @ + 1], "other")
     ELSE UNCHANGED wvars
  /\ UNCHANGED <<main, cleanupAt, mbox, procs, now, dbvars>>

\* NOOP is answered on Imap object c.
NoopOk(c) ==
  /\ ~crashed /\ Answering(c) /\ conn[c].noop > 0
  /\ Commit([Watcher EXCEPT !.conn[c].noop = @ - 1], "other")
  /\ UNCHANGED <<main, cleanupAt, mbox, procs, now, dbvars>>

\* NOOP fails on Imap object c: 'Heartbeat failed'.
NoopError(c) ==
  /\ ~crashed /\ Answering(c) /\ conn[c].noop > 0
  /\ Commit(handleConnectionError([Watcher EXCEPT !.conn[c].noop = @ - 1]), "other")
  /\ UNCHANGED <<main, cleanupAt, mbox, procs, now, dbvars>>

(***************************************************************************)
(* Ingestion.                                                              *)
(***************************************************************************)

\* Message m arrives in the INBOX.
Deliver(m) ==
  /\ ~crashed /\ Len(mbox) < MaxMsgs /\ now.d <= MaxDeliverDay
  /\ mbox' = Append(mbox, [from |-> m.from, to |-> m.to, subject |-> m.subject,
                           body |-> m.body, date |-> now.d, seen |-> FALSE])
  /\ UNCHANGED <<wvars, main, cleanupAt, procs, now, dbvars>>

\* node-imap emits 'mail' on Imap object c, which has the mailbox open.
MailEvent(c) ==
  /\ ~crashed
  /\ conn[c].st = "authenticated" /\ conn[c].boxOpen /\ conn[c].mail > 0
  /\ svc.imap # NoImap => conn[svc.imap].srch + conn[c].mail <= MaxPending
  /\ Commit(onMail(Watcher, conn[c].mail), "other")
  /\ UNCHANGED <<main, cleanupAt, mbox, procs, now, dbvars>>

\* The search on Imap object c is answered: with no result the callback
\* returns, otherwise it fetches the last uid.
SearchResults(c) ==
  /\ ~crashed /\ Answering(c) /\ conn[c].srch > 0
  /\ LET w == [Watcher EXCEPT !.conn[c].srch = @ - 1] IN
     IF searchResults = {} THEN Commit(w, "other")
     ELSE /\ ~fetchThrows(w) => Len(w.conn[w.svc.imap].ftch) < MaxPending
          /\ Commit(fetch(w, latestUid), "other")
  /\ UNCHANGED <<main, cleanupAt, mbox, procs, now, dbvars>>

\* The search on Imap object c fails: 'Search error'.
SearchError(c) ==
  /\ ~crashed /\ Answering(c) /\ conn[c].srch > 0
  /\ Commit(handleConnectionError([Watcher EXCEPT !.conn[c].srch = @ - 1]), "other")
  /\ UNCHANGED <<main, cleanupAt, mbox, procs, now, dbvars>>

\* The fetch on Imap object c delivers its message ('message', then 'end'):
\* processEmail(buffer, uid) starts and awaits simpleParser.
FetchMessage(c) ==
  /\ ~crashed /\ Answering(c) /\ conn[c].ftch # <<>>
  /\ FreeProcs # {}
  /\ procs' = [procs EXCEPT ![NextProc] = [IdleProc EXCEPT !.pc = "parse",
                                                         !.uid = Head(conn[c].ftch)]]
  /\ Commit([Watcher EXCEPT !.conn[c].ftch = Tail(@)], "other")
  /\ UNCHANGED <<main, cleanupAt, mbox, now, dbvars>>

\* The fetch on Imap object c fails: 'Fetch error'.
FetchError(c) ==
  /\ ~crashed /\ Answering(c) /\ conn[c].ftch # <<>>
  /\ Commit(handleConnectionError([Watcher EXCEPT !.conn[c].ftch = Tail(@)]), "other")
  /\ UNCHANGED <<main, cleanupAt, mbox, procs, now, dbvars>>

\* simpleParser resolves for process p: insertEmail(email) is called and
\* awaited.
ParseOk(p) ==
  /\ ~crashed /\ procs[p].pc = "parse"
  /\ procs' = [procs EXCEPT ![p].pc = "insert"]
  /\ UNCHANGED <<wvars, main, cleanupAt, mbox, now, dbvars>>

\* simpleParser rejects for process p: the catch block logs.
ParseError(p) ==
  /\ ~crashed /\ procs[p].pc = "parse"
  /\ procs' = [procs EXCEPT ![p].pc = "failed"]
  /\ UNCHANGED <<wvars, main, cleanupAt, mbox, now, dbvars>>

\* sqlite3 runs the INSERT OR IGNORE of process p; the promise resolves with
\* this.changes > 0.
insertEmail(p) ==
  /\ ~crashed /\ procs[p].pc = "insert"
  /\ emails' = insertOrIgnore(emails, emailRow(p, procs[p].uid, now))
  /\ procs' = [procs EXCEPT ![p].pc = "inserted", ![p].inserted = (emails' # emails)]
  /\ UNCHANGED <<wvars, main, cleanupAt, mbox, now, codes, codeSeq, inserts, marks, calls, job>>

\* processEmail goes on after insertEmail: extractCode when the row is new.
\* A code found is handed to insertCode, which is not awaited, and
\* markEmailAsRead is called.
extractCode(p) ==
  /\ ~crashed /\ procs[p].pc = "inserted"
  /\ LET uid == procs[p].uid
         code == extractedCode(combinedText(mbox[uid].body, mbox[uid].subject))
     IN IF extracts(procs[p].inserted) /\ code # NoCode
        THEN /\ inserts' = inserts \cup {[email_id |-> p, code |-> code]}
             /\ ~markThrows(Watcher) => Len(conn[svc.imap].flag) < MaxPending
             /\ Commit(markEmailAsRead(Watcher, uid), "other")
             /\ procs' = [procs EXCEPT ![p].pc = "done", ![p].code = code,
                            ![p].read = IF markThrows(Watcher) THEN "threw" ELSE "sent"]
        ELSE /\ procs' = [procs EXCEPT ![p].pc = "done"]
             /\ UNCHANGED <<wvars, inserts>>
  /\ UNCHANGED <<main, cleanupAt, mbox, now, emails, codes, codeSeq, marks, calls, job>>

\* sqlite3 runs an INSERT INTO codes (email_id, code).
insertCode(i) ==
  /\ ~crashed /\ i \in inserts
  /\ inserts' = inserts \ {i}
  /\ codeSeq' = codeSeq + 1
  /\ codes' = codes \cup {[id |-> codeSeq + 1, email_id |-> i.email_id, code |-> i.code,
                           used |-> FALSE, created_at |-> now]}
  /\ UNCHANGED <<wvars, main, cleanupAt, mbox, procs, now, emails, marks, calls, job>>

\* sqlite3 fails the INSERT of process p: insertEmail rejects and the catch
\* block of processEmail logs.
InsertEmailError(p) ==
  /\ ~crashed /\ procs[p].pc = "insert"
  /\ procs' = [procs EXCEPT ![p].pc = "failed"]
  /\ UNCHANGED <<wvars, main, cleanupAt, mbox, now, dbvars>>

\* sqlite3 fails an INSERT INTO codes: the promise insertCode returned, which
\* extractCode dropped, rejects with no handler. Node.js from version 15 on
\* ends the process on an unhandled rejection; older versions print a warning.
InsertCodeError(i) ==
  /\ ~crashed /\ i \in inserts
  /\ inserts' = inserts \ {i}
  /\ \E fatal \in BOOLEAN : Commit([Watcher EXCEPT !.crashed = fatal], "other")
  /\ UNCHANGED <<main, cleanupAt, mbox, procs, now, emails, codes, codeSeq, marks,
                 calls, job>>

\* processEmail invocation p has returned without storing a row (its INSERT
\* was ignored or failed, or the parse failed): nothing refers to it any
\* more, and a later invocation may take its place in the model.
Returned(p) ==
  /\ ~crashed /\ procs[p].pc \in {"done", "failed"} /\ ~procs[p].inserted
  /\ \A e \in emails : e.id # p
  /\ procs' = [procs EXCEPT ![p] = IdleProc]
  /\ UNCHANGED <<wvars, main, cleanupAt, mbox, now, dbvars>>

\* addFlags is answered on Imap object c: the message is \Seen.
AddFlagsOk(c) ==
  /\ ~crashed /\ Answering(c) /\ conn[c].flag # <<>>
  /\ mbox' = [mbox EXCEPT ![Head(conn[c].flag)].seen = TRUE]
  /\ Commit([Watcher EXCEPT !.conn[c].flag = Tail(@)], "other")
  /\ UNCHANGED <<main, cleanupAt, procs, now, dbvars>>

\* addFlags fails on Imap object c: the callback logs.
AddFlagsError(c) ==
  /\ ~crashed /\ Answering(c) /\ conn[c].flag # <<>>
  /\ Commit([Watcher EXCEPT !.conn[c].flag = Tail(@)], "other")
  /\ UNCHANGED <<main, cleanupAt, mbox, procs, now, dbvars>>

(***************************************************************************)
(* The query surface.                                                      *)
(***************************************************************************)

\* GET /api/last-code, /api/last-code-from/:fromAddress or
\* /api/last-code-to/:toAddress: the SELECT is handed to sqlite3.
Request(kind, arg) ==
  /\ ~crashed /\ FreeCalls # {}
  /\ calls' = [calls EXCEPT ![NextCall] =
                 [pc |-> "select", kind |-> kind, arg |-> arg, row |-> NoRow,
                  err |-> FALSE, prior |-> Answered]]
  /\ UNCHANGED <<wvars, main, cleanupAt, mbox, procs, now, emails, codes, codeSeq, inserts,
                 marks, job>>

\* sqlite3 runs the SELECT of request k.
Select(k) ==
  /\ ~crashed /\ calls[k].pc = "select"
  /\ LET rows == lastRows(calls[k].kind, calls[k].arg) IN
     IF rows = {} THEN calls' = [calls EXCEPT ![k].pc = "callback"]
     ELSE \E r \in rows : calls' = [calls EXCEPT ![k].pc = "callback", ![k].row = r]
  /\ UNCHANGED <<wvars, main, cleanupAt, mbox, procs, now, emails, codes, codeSeq, inserts,
                 marks, job>>

\* The callback of db.get in getLastCode (and its two variants): with a row,
\* markCodeAsUsed hands the UPDATE to sqlite3 and the promise resolves with
\* the row; the route answers.
getLastCode(k) ==
  /\ ~crashed /\ calls[k].pc = "callback"
  /\ calls' = [calls EXCEPT ![k].pc = "done"]
  /\ marks' = IF calls[k].row # NoRow THEN marks \cup {[id |-> calls[k].row.id, by |-> k]}
              ELSE marks
  /\ UNCHANGED <<wvars, main, cleanupAt, mbox, procs, now, emails, codes, codeSeq, inserts, job>>

\* sqlite3 runs an UPDATE codes SET used = TRUE WHERE id = ?.
MarkUsed(m) ==
  /\ ~crashed /\ m \in marks
  /\ marks' = marks \ {m}
  /\ codes' = markCodeAsUsed(codes, m.id)
  /\ UNCHANGED <<wvars, main, cleanupAt, mbox, procs, now, emails, codeSeq, inserts, calls, job>>

\* sqlite3 fails the SELECT of request k: db.get calls back with err.
SelectError(k) ==
  /\ ~crashed /\ calls[k].pc = "select"
  /\ calls' = [calls EXCEPT ![k].pc = "callback", ![k].err = TRUE]
  /\ UNCHANGED <<wvars, main, cleanupAt, mbox, procs, now, emails, codes, codeSeq,
                 inserts, marks, job>>

\* GET /api/last-email: the SELECT of getLastEmail is handed to sqlite3.
RequestEmail ==
  /\ ~crashed /\ FreeCalls # {}
  /\ calls' = [calls EXCEPT ![NextCall] =
                 [pc |-> "selectEmail", kind |-> "email", arg |-> Account,
                  row |-> NoRow, err |-> FALSE, prior |-> {}]]
  /\ UNCHANGED <<wvars, main, cleanupAt, mbox, procs, now, emails, codes, codeSeq,
                 inserts, marks, job>>

\* sqlite3 runs the SELECT of getLastEmail for request k, or fails it.
SelectEmail(k) ==
  /\ ~crashed /\ calls[k].pc = "selectEmail"
  /\ \/ \E r \in lastEmails(calls[k].arg) :
          calls' = [calls EXCEPT ![k].pc = "callbackEmail", ![k].row = r]
     \/ /\ lastEmails(calls[k].arg) = {}
        /\ calls' = [calls EXCEPT ![k].pc = "callbackEmail"]
     \/ calls' = [calls EXCEPT ![k].pc = "callbackEmail", ![k].err = TRUE]
  /\ UNCHANGED <<wvars, main, cleanupAt, mbox, procs, now, emails, codes, codeSeq,
                 inserts, marks, job>>

\* The callback of db.get in getLastEmail: the promise settles and the route
\* answers.
getLastEmail(k) ==
  /\ ~crashed /\ calls[k].pc = "callbackEmail"
  /\ calls' = [calls EXCEPT ![k].pc = "done"]
  /\ UNCHANGED <<wvars, main, cleanupAt, mbox, procs, now, emails, codes, codeSeq,
                 inserts, marks, job>>

\* The UPDATE fails: the callback of markCodeAsUsed logs the error.
MarkError(m) ==
  /\ ~crashed /\ m \in marks
  /\ marks' = marks \ {m}
  /\ UNCHANGED <<wvars, main, cleanupAt, mbox, procs, now, emails, codes, codeSeq,
                 inserts, calls, job>>

(***************************************************************************)
(* Retention.                                                              *)
(***************************************************************************)

\* The 24-hour interval of startService fires: cleanupOldEmails(7).
CleanupInterval ==
  /\ ~crashed /\ main = "scheduled" /\ cleanupAt = now /\ job.pc = "idle"
  /\ job' = cleanupOldEmails
  /\ cleanupAt' = [cleanupAt EXCEPT !.d = @ + 1]
  /\ UNCHANGED <<wvars, main, mbox, procs, now, emails, codes, codeSeq, inserts,
                 marks, calls>>

\* sqlite3 runs DELETE FROM codes WHERE email_id IN (...); its callback hands
\* over the DELETE FROM emails.
DeleteCodes ==
  /\ ~crashed /\ job.pc = "codes"
  /\ codes' = deleteCodes(codes, job.cutoff)
  /\ job' = [job EXCEPT !.pc = "emails"]
  /\ UNCHANGED <<wvars, main, cleanupAt, mbox, procs, now, emails, codeSeq, inserts, marks, calls>>

\* sqlite3 runs DELETE FROM emails WHERE created_at < ?; the promise resolves
\* with this.changes. After its first cleanup startService sets the interval.
DeleteEmails ==
  /\ ~crashed /\ job.pc = "emails"
  /\ emails' = emails \ olderThan(job.cutoff)
  /\ job' = [job EXCEPT !.pc = "idle", !.removed = Cardinality(olderThan(job.cutoff))]
  /\ main' = IF main = "cleanup" THEN "scheduled" ELSE main
  /\ cleanupAt' = IF main = "cleanup" THEN [now EXCEPT !.d = @ + 1] ELSE cleanupAt
  /\ UNCHANGED <<wvars, mbox, procs, now, codes, codeSeq, inserts, marks, calls>>

\* Time passes. Commands, statements and parses take far less than a tick,
\* and an interval that is due fires before the tick is over.
Tick ==
  /\ ~crashed /\ Quiescent /\ now.d < MaxDay
  /\ ~(main = "scheduled" /\ cleanupAt = now)
  /\ now' = IF now.s + 1 < TicksPerDay THEN [now EXCEPT !.s = @ + 1]
            ELSE [d |-> now.d + 1, s |-> 0]
  /\ UNCHANGED <<wvars, main, cleanupAt, mbox, procs, dbvars>>

(***************************************************************************)
(* Specifications.                                                         *)
(***************************************************************************)
Lifecycle ==
  \/ StartService
  \/ ReconnectTimer
  \/ \E c \in Conns : ImapReady(c)
  \/ \E c \in Conns : ImapError(c)
  \/ \E c \in Conns : ImapEnd(c)
  \/ \E c \in Conns : OpenBoxOk(c)
  \/ \E c \in Conns : OpenBoxError(c)
  \/ HeartbeatTick
  \/ \E c \in Conns : NoopOk(c)
  \/ \E c \in Conns : NoopError(c)

Triggers ==
  \/ \E c \in Conns : MailEvent(c)
  \/ \E c \in Conns : SearchResults(c)
  \/ \E c \in Conns : SearchError(c)
  \/ \E c \in Conns : FetchError(c)

Pipeline ==
  \/ \E c \in Conns : FetchMessage(c)
  \/ \E p \in Procs : ParseOk(p)
  \/ \E p \in Procs : ParseError(p)
  \/ \E p \in Procs : insertEmail(p)
  \/ \E p \in Procs : extractCode(p)
  \/ \E i \in inserts : insertCode(i)
  \/ \E c \in Conns : AddFlagsOk(c)
  \/ \E c \in Conns : AddFlagsError(c)

\* The store failing a statement of ingestion.
StoreFaults ==
  \/ \E p \in Procs : InsertEmailError(p)
  \/ \E i \in inserts : InsertCodeError(i)

Queries ==
  \/ Request("account", Account)
  \/ \E a \in FromAsked : Request("from", a)
  \/ \E a \in ToAsked : Request("to", a)
  \/ \E k \in Calls : Select(k)
  \/ \E k \in Calls : getLastCode(k)
  \/ \E m \in marks : MarkUsed(m)
  \/ \E m \in marks : MarkError(m)

\* The four retrieval routes, their SELECTs failing or not.
Answers ==
  \/ Request("account", Account)
  \/ \E a \in FromAsked : Request("from", a)
  \/ \E a \in ToAsked : Request("to", a)
  \/ RequestEmail
  \/ \E k \in Calls : Select(k)
  \/ \E k \in Calls : SelectError(k)
  \/ \E k \in Calls : SelectEmail(k)
  \/ \E k \in Calls : getLastCode(k)
  \/ \E k \in Calls : getLastEmail(k)
  \/ \E m \in marks : MarkUsed(m)

Retention ==
  \/ CleanupInterval
  \/ DeleteCodes
  \/ DeleteEmails
  \/ Tick

\* The whole program.
Next ==
  \/ \E m \in Samples : Deliver(m)
  \/ Lifecycle \/ Triggers \/ Pipeline \/ StoreFaults \/ Queries \/ Answers
  \/ Retention
Spec == Init /\ [][Next]_vars

\* The watcher: the connection, its faults and the commands it sends. What a
\* message says plays no part here, so one kind of message arrives; fetched
\* messages, parses and the store's statements are left pending (none of them
\* writes a field of the watcher).
WatcherSample == CHOOSE m \in Samples : m.from = "b"
NextWatcher ==
  \/ Deliver(WatcherSample)
  \/ Lifecycle \/ Triggers
SpecWatcher == Init /\ [][NextWatcher]_vars

\* The watcher, with what its environment is certain to do: a timer that is
\* set fires, a handshake under way ends in 'ready' or 'error', and the server
\* answers an openBox it has been sent. Faults of an established connection
\* may or may not come.
SpecListen ==
  /\ SpecWatcher
  /\ WF_vars(ReconnectTimer)
  /\ \A c \in Conns : WF_vars(ImapReady(c) \/ (conn[c].st = "connecting" /\ ImapError(c)))
  /\ \A c \in Conns : WF_vars(OpenBoxOk(c) \/ OpenBoxError(c))

\* Ingestion over a connection that stays up. The connection's faults are
\* left out; none of them writes a table.
Ingestion ==
  \/ StartService
  \/ \E c \in Conns : ImapReady(c)
  \/ \E c \in Conns : OpenBoxOk(c)
  \/ \E m \in Samples : Deliver(m)
  \/ \E c \in Conns : MailEvent(c)
  \/ \E c \in Conns : SearchResults(c)
  \/ Pipeline

\* extractCode applied to each of the texts: the message in the INBOX is
\* fetched and processed, with no fault.
NextExtract ==
  \/ StartService
  \/ \E c \in Conns : ImapReady(c)
  \/ \E c \in Conns : OpenBoxOk(c)
  \/ \E c \in Conns : MailEvent(c)
  \/ \E c \in Conns : SearchResults(c)
  \/ \E c \in Conns : FetchMessage(c)
  \/ \E p \in Procs : ParseOk(p)
  \/ \E p \in Procs : insertEmail(p)
  \/ \E p \in Procs : extractCode(p)
  \/ \E i \in inserts : insertCode(i)
  \/ \E c \in Conns : AddFlagsOk(c)
SpecExtract == InitExtract /\ [][NextExtract]_vars

\* Ingestion over a connection that stays up, with no fault, for as long as
\* it goes on: notifications keep coming and are handled, the server answers
\* each command, and each parse and statement ends.
NextArrive ==
  \/ StartService
  \/ \E c \in Conns : ImapReady(c)
  \/ \E c \in Conns : OpenBoxOk(c)
  \/ \E m \in Samples : Deliver(m)
  \/ \E c \in Conns : MailEvent(c)
  \/ \E c \in Conns : SearchResults(c)
  \/ \E c \in Conns : FetchMessage(c)
  \/ \E p \in Procs : ParseOk(p)
  \/ \E p \in Procs : insertEmail(p)
  \/ \E p \in Procs : extractCode(p)
  \/ \E p \in Procs : Returned(p)
  \/ \E i \in inserts : insertCode(i)
  \/ \E c \in Conns : AddFlagsOk(c)
\* The turns of the connection that exclude one another: startup, then a
\* notification or the answer to the search it started.
Notify ==
  \/ StartService
  \/ \E c \in Conns : ImapReady(c) \/ OpenBoxOk(c) \/ MailEvent(c) \/ SearchResults(c)
\* The next step of processEmail invocation p that waits for a parse or a
\* statement to end, or its return.
Proceed(p) == ParseOk(p) \/ insertEmail(p) \/ Returned(p)
SpecArrive ==
  /\ Init /\ [][NextArrive]_vars
  /\ WF_vars(Notify)
  /\ WF_vars(\E c \in Conns : FetchMessage(c))
  /\ WF_vars(\E c \in Conns : AddFlagsOk(c))
  /\ \A p \in Procs : WF_vars(Proceed(p))
  \* extractCode runs in the turn in which insertEmail has resolved
  /\ \A p \in Procs : []<>(procs[p].pc # "inserted")
  /\ WF_vars(\E i \in inserts : insertCode(i))

\* The store as ingestion and retention use it, over time.
NextIngest == Ingestion \/ StoreFaults \/ Retention
SpecIngest == Init /\ [][NextIngest]_vars

\* Ingestion, retrieval by account and retention on a store that holds rows
\* past retention when the process starts: createTables migrates the table,
\* and the cleanup of startService deletes the old rows while new messages
\* are taken in and codes are asked for. The database is open before the
\* first request is served.
NextRetain ==
  \/ createTables
  \/ NextIngest
  \/ main # "opening" /\ Request("account", Account)
  \/ \E k \in Calls : Select(k)
  \/ \E k \in Calls : getLastCode(k)
  \/ \E m \in marks : MarkUsed(m)
SpecRetain == InitRetain /\ [][NextRetain]_vars

\* The retrieval routes answering over a store that ingestion fills without
\* faults, from one kind of message.
NextAnswer ==
  \/ StartService
  \/ \E c \in Conns : ImapReady(c)
  \/ \E c \in Conns : OpenBoxOk(c)
  \/ Deliver(WatcherSample)
  \/ \E c \in Conns : MailEvent(c)
  \/ \E c \in Conns : SearchResults(c)
  \/ \E c \in Conns : FetchMessage(c)
  \/ \E p \in Procs : ParseOk(p)
  \/ \E p \in Procs : insertEmail(p)
  \/ \E p \in Procs : extractCode(p)
  \/ \E i \in inserts : insertCode(i)
  \/ \E c \in Conns : AddFlagsOk(c)
  \/ Answers
SpecAnswer == Init /\ [][NextAnswer]_vars

\* The store as ingestion and the query surface use it, at one time; the
\* messages that arrive carry a code.
NextQuery ==
  \/ StartService
  \/ \E c \in Conns : ImapReady(c)
  \/ \E c \in Conns : OpenBoxOk(c)
  \/ \E m \in CodeSamples : Deliver(m)
  \/ \E c \in Conns : MailEvent(c)
  \/ \E c \in Conns : SearchResults(c)
  \/ Pipeline
  \/ Queries
SpecQuery == Init /\ [][NextQuery]_vars

\* The watcher with messages in process: the connection, its loss ('error'
\* and 'end' of the socket) and its replacement, and processEmail up to
\* extractCode, whose mark-as-read uses the connection. The commands
\* themselves do not fail here, and the INSERTs of codes are left pending.
NextGuard ==
  \/ Deliver(WatcherSample)
  \/ StartService
  \/ ReconnectTimer
  \/ \E c \in Conns : ImapReady(c)
  \/ \E c \in Conns : ImapError(c)
  \/ \E c \in Conns : ImapEnd(c)
  \/ \E c \in Conns : OpenBoxOk(c)
  \/ HeartbeatTick
  \/ \E c \in Conns : NoopOk(c)
  \/ \E c \in Conns : MailEvent(c)
  \/ \E c \in Conns : SearchResults(c)
  \/ \E c \in Conns : FetchMessage(c)
  \/ \E p \in Procs : ParseOk(p)
  \/ \E p \in Procs : insertEmail(p)
  \/ \E p \in Procs : extractCode(p)
SpecGuard == Init /\ [][NextGuard]_vars

(***************************************************************************)
(* The watcher's claims, checked under SpecWatcher.                        *)
(***************************************************************************)

\* Imap object c is a connection attempt in progress: its handshake is under
\* way and the watcher listens for its outcome.
Attempting(c) == conn[c].st = "connecting" /\ "ready" \in conn[c].lis

\* C6: whenever a connection attempt ends before 'ready', by an 'error' or an
\* 'end' event, with fewer than 10 reconnect attempts used, the connection is
\* torn down and a reconnect is scheduled.
C6_FailedHandshakeRetries ==
  [][\A c \in Conns :
       (/\ Attempting(c)
        /\ svc.reconnectAttempts < maxReconnectAttempts
        /\ (ImapError(c) \/ ImapEnd(c)))
       => (svc'.imap = NoImap /\ Len(timers') = 1)]_vars

\* C7: at most one reconnect timer is pending in every reachable state.
C7_OneReconnectTimer == Len(timers) <= 1

\* Two fault handlers have run for one failure and one timer is pending.
C7_Witness == Len(timers) = 1 /\ faults >= 2

\* The retry budget is used up: 10 reconnects have been scheduled, none is
\* pending and no attempt is in progress.
Exhausted ==
  /\ svc.reconnectAttempts = maxReconnectAttempts
  /\ timers = <<>>
  /\ \A c \in Conns : ~Attempting(c)

\* C8: once the tenth reconnect in a row has been used (its timer has fired),
\* nothing more is scheduled and no new connection attempt is made; unless
\* the attempt in progress succeeds, getStatus reports connected = false with
\* reconnectAttempts = 10 from then on.
C8_BudgetIsTerminal ==
  [][(svc.reconnectAttempts = 10 /\ timers = <<>>)
       => /\ timers' = <<>>
          /\ \A c \in Conns : Attempting(c)' => Attempting(c)
          /\ \/ getStatus'.connected = FALSE /\ getStatus'.reconnectAttempts = 10
             \/ \E c \in Conns : Attempting(c) /\ ImapReady(c)
          /\ Exhausted => Exhausted']_vars

\* The tenth reconnect attempt in a row has failed.
C8_Witness == Exhausted /\ armed = 10 /\ ~svc.isReconnecting /\ ~crashed

\* C9: the delay armed for the N-th reconnect since the last successful
\* connection is min(5000 * N, 60000) ms.
C9_BackoffDelay ==
  \A i \in 1..Len(timers) : timers[i] = Min(5000 * armed, 60000)

\* The tenth reconnect is armed, with the longest delay the budget allows.
C9_Witness == timers = <<50000>> /\ armed = 10

\* This step arms a reconnect timer.
Arms == Len(timers') = Len(timers) + 1

\* C10: reconnectAttempts goes up by exactly one whenever a reconnect is
\* scheduled and changes otherwise only to zero, in the 'ready' handler.
C10_CounterDiscipline ==
  [][/\ Arms => svc'.reconnectAttempts = svc.reconnectAttempts + 1
     /\ (~Arms /\ svc'.reconnectAttempts # svc.reconnectAttempts)
          => /\ svc'.reconnectAttempts = 0
             /\ \E c \in Conns : Attempting(c) /\ ImapReady(c)]_vars

\* Three reconnects in a row have been scheduled, the third is pending.
C10_Witness == svc.reconnectAttempts = 3 /\ Len(timers) = 1 /\ armed = 3

(***************************************************************************)
(* The query surface's claims, checked under SpecQuery.                    *)
(***************************************************************************)

\* Requests j and k have both been answered, and neither was issued after the
\* other's answer carried the code with this id: they overlapped in time.
Overlapped(j, k, id) ==
  /\ j # k
  /\ calls[j].pc = "done" /\ calls[k].pc = "done"
  /\ id \notin calls[j].prior /\ id \notin calls[k].prior

\* C1: of the retrieval calls (by account, by sender or by recipient) that
\* overlap in time on a store holding one code, at most one is answered with
\* that code.
C1_SingleUseUnderConcurrency ==
  \A j, k \in Calls :
     (codeSeq = 1 /\ Overlapped(j, k, 1) /\ calls[j].row.id = 1)
       => calls[k].row = NoRow

\* C2: with one code in the store and no other ever ingested, when a
\* GET /api/last-code has been answered with that code, a GET /api/last-code
\* issued after that answer is answered with data: null.
C2_SequentialSingleUse ==
  \A j, k \in Calls :
     (/\ codeSeq = 1 /\ inserts = {}
      /\ calls[j].kind = "account" /\ calls[j].pc = "done" /\ calls[j].row.id = 1
      /\ calls[k].kind = "account" /\ calls[k].pc = "done" /\ 1 \in calls[k].prior)
       => calls[k].row = NoRow

\* C3: no retrieval, through any of the three operations, is answered with a
\* code id that an answer given before the retrieval was issued carried.
C3_MonotonicConsumption ==
  \A k \in Calls :
     calls[k].pc = "done" => calls[k].row.id \notin calls[k].prior

(***************************************************************************)
(* The ingestion claims, checked under SpecIngest.                         *)
(***************************************************************************)

\* The emails rows held for the (email_account, uid) pair of message uid.
rowsOf(tbl, uid) == {e \in tbl : e.email_account = Account /\ e.uid = uid}

\* C4: when an insertEmail call for an (email_account, uid) pair completes,
\* the table holds exactly one row for the pair; the call resolves true and
\* stores its row when the pair had no row, and resolves false and leaves the
\* table as it was (the first row's id and content) when the pair had one.
C4_IdempotentIngestion ==
  [][\A p \in Procs :
       (procs[p].pc = "insert" /\ procs'[p].pc = "inserted") =>
         /\ Cardinality(rowsOf(emails', procs[p].uid)) = 1
         /\ IF rowsOf(emails, procs[p].uid) = {}
            THEN /\ procs'[p].inserted = TRUE
                 /\ emails' = emails \cup {emailRow(p, procs[p].uid, now)}
            ELSE /\ procs'[p].inserted = FALSE
                 /\ emails' = emails]_vars

\* insertEmail has been called twice for one pair: the first call resolved
\* true, the second false, and the row held is the first call's.
C4_Witness ==
  \E p, q \in Procs :
     /\ p # q /\ procs[p].uid = procs[q].uid
     /\ procs[p].pc \in {"inserted", "done"} /\ procs[p].inserted
     /\ procs[q].pc = "inserted" /\ ~procs[q].inserted
     /\ rowsOf(emails, procs[q].uid) = {emailRow(p, procs[p].uid, now)}

\* The processEmail invocations that handed a code of message uid to insertCode.
codeWriters(uid) == {p \in Procs : procs[p].uid = uid /\ procs[p].code # NoCode}

\* C5: however often one message (one account and uid) is fetched and
\* processed, in sequence or with the fetches in flight together, at most one
\* codes row is ever created for it.
C5_NoDuplicateCode ==
  \A uid \in 1..Len(mbox) :
     /\ Cardinality(codeWriters(uid)) <= 1
     /\ Cardinality({c \in codes : procs[c.email_id].uid = uid})
          + Cardinality({i \in inserts : procs[i.email_id].uid = uid}) <= 1

\* One message has been processed twice to the end: one invocation stored the
\* message and its code, the other found the message stored.
C5_Witness ==
  \E p, q \in Procs :
     /\ p # q /\ procs[p].uid = procs[q].uid
     /\ procs[p].pc = "done" /\ procs[p].code # NoCode
     /\ procs[q].pc = "done" /\ ~procs[q].inserted
     /\ \E c \in codes : c.email_id = p

(***************************************************************************)
(* The retention claims.                                                   *)
(***************************************************************************)

\* Instant a is before instant b.
before(a, b) == a.d < b.d \/ (a.d = b.d /\ a.s < b.s)

\* The instant the cutoff text of the cleanup under way stands for.
cutoffInstant == [d |-> job.cutoff[1], s |-> job.cutoff[3]]

\* C11: when cleanupOldEmails completes, every message created before the
\* cutoff instant (now minus the retention days) is gone, with its codes, and
\* every message created after the cutoff instant is still held, also when
\* it was created on the calendar day of the cutoff.
C11_RetentionBoundary ==
  [][(job.pc = "emails" /\ job'.pc = "idle") =>
       \A e \in emails :
          /\ before(e.created_at, cutoffInstant)
               => (e \notin emails' /\ \A c \in codes' : c.email_id # e.id)
          /\ before(cutoffInstant, e.created_at) => e \in emails']_vars

\* startService has come to its end.
startServiceEnded == main \in {"failed", "scheduled"}

\* C12: whenever startService has come to its end, also after a first
\* connection attempt that failed, the startup cleanup has run and the
\* 24-hour interval that repeats it is set.
C12_RetentionSchedule == startServiceEnded => main = "scheduled"

\* C13: when the UPDATE that marks a retrieved code as used fails, the
\* retrieval that handed it over has not been answered with that code as a
\* success.
C13_NoSilentSwallowing ==
  [][\A m \in marks :
       MarkError(m) => ~(calls[m.by].pc = "done" /\ calls[m.by].row.id = m.id)]_vars

(***************************************************************************)
(* The retrieval routes' answers, checked under SpecAnswer.                *)
(***************************************************************************)

\* The columns of codes and of emails that the model keeps.
codeColumns == {"id", "email_id", "code", "used", "created_at"}
emailColumns == {"id", "email_account", "subject", "from_address", "to_address",
                 "body_text", "uid", "created_at"}

\* What the route of request k sends once the promise it awaits has settled.
response(k) == respond(calls[k].err, calls[k].row, errorText(calls[k].kind))

\* The rows the SELECT of request k may return.
matching(k) ==
  IF calls[k].kind = "email" THEN lastEmails(calls[k].arg)
  ELSE lastRows(calls[k].kind, calls[k].arg)

\* C14: each of the four retrieval routes answers in one of three ways: 200
\* with success true and the whole row when the SELECT found one, 200 with
\* success true and data null when no row matched, and 500 with success
\* false and the route's fixed error text when the store rejected; the
\* SELECT finds a row exactly when one matches.
C14_ThreeWayOutcome ==
  [][\A k \in Calls :
       /\ (calls[k].pc \in {"select", "selectEmail"} /\ calls'[k].pc # calls[k].pc
             /\ ~calls'[k].err)
            => IF matching(k) = {} THEN calls'[k].row = NoRow
               ELSE calls'[k].row \in matching(k)
       /\ calls'[k].pc = "done"
            => LET r == response(k)' IN
               IF calls'[k].err
               THEN r = [status |-> 500, success |-> FALSE,
                         error |-> errorText(calls'[k].kind)]
               ELSE /\ r = [status |-> 200, success |-> TRUE, data |-> calls'[k].row]
                    /\ (calls'[k].row # NoRow
                          => DOMAIN calls'[k].row \in {codeColumns, emailColumns})]_vars

\* One request has been answered not-found and another after the store
\* rejected, with a code in the store.
C14_Witness ==
  \E j, k \in Calls :
     /\ calls[j].pc = "done" /\ ~calls[j].err /\ calls[j].row = NoRow
     /\ calls[k].pc = "done" /\ calls[k].err
     /\ \E c \in codes : ~c.used

(***************************************************************************)
(* Faults of ingestion.                                                     *)
(***************************************************************************)

\* A step in which ingestion fails: the parse, the INSERT of the message, the
\* INSERT of its code, or the mark-as-read (addFlags throwing or failing).
IngestionFault ==
  \/ \E p \in Procs : ParseError(p)
  \/ \E p \in Procs : InsertEmailError(p)
  \/ \E i \in inserts : InsertCodeError(i)
  \/ \E c \in Conns : AddFlagsError(c)
  \/ \E p \in Procs : extractCode(p) /\ procs'[p].read = "threw"

\* C15: a step in which ingestion fails leaves isConnected, the Imap handle,
\* the heartbeat timer, reconnectAttempts and isReconnecting as they were,
\* and the watcher goes on: the process is alive and the 'mail' listeners
\* are still in place.
C15_IngestionFaultsIsolated ==
  [][IngestionFault =>
       /\ svc' = svc /\ intervals' = intervals /\ timers' = timers
       /\ crashed' = FALSE
       /\ \A c \in Conns : conn'[c].mail = conn[c].mail]_vars

(***************************************************************************)
(* The extraction claims, checked under SpecExtract.                       *)
(***************************************************************************)

\* The combined text of message uid.
textOf(uid) == combinedText(mbox[uid].body, mbox[uid].subject)

\* processEmail invocation p has stored its message and run extractCode.
Extracted(p) == procs[p].pc = "done" /\ procs[p].inserted

\* The stages with a match in the text, and the earliest of them.
matchingStages(t) == {k \in patterns : matchPattern(t, k) # NoMatch}
firstStage(t) == CHOOSE k \in matchingStages(t) : \A j \in matchingStages(t) : k <= j

\* The code by stage precedence: the first match of the earliest stage that
\* matches, stripped of its non-digits, if that has four to eight digits.
codeByPrecedence(t) ==
  IF matchingStages(t) = {} THEN NoCode
  ELSE LET d == stripNonDigits(t, matchPattern(t, firstStage(t))) IN
       IF Len(d) >= 4 /\ Len(d) <= 8 THEN d ELSE NoCode

\* C16: the code extractCode produces for a text is the first match of the
\* earliest stage, in the order "code", "2fa", "verification", six digits,
\* four digits, that matches the text; no later stage is used when an
\* earlier one matched.
C16_StagePrecedence ==
  \A p \in Procs : Extracted(p) => procs[p].code = codeByPrecedence(textOf(procs[p].uid))

\* The length of the label of stages 1 to 3.
labelLen(k) == CASE k = 1 -> 4 [] k = 2 -> 3 [] k = 3 -> 12

\* Where the digits start in the first match of label stage k, and the run of
\* digits there.
digitsAt(t, k) ==
  LET lo == matchPattern(t, k).lo + labelLen(k) IN lo + Run(t, lo, LabelSeps)
labelledRun(t, k) == SubSeq(t, digitsAt(t, k), digitsAt(t, k) + Run(t, digitsAt(t, k), Digits) - 1)

\* C17: when the earliest matching stage is a label ("code", "2fa" or
\* "verification") followed by a run of four to eight digits, the code
\* stored is that run of digits.
C17_LabelledDigits ==
  \A p \in Procs :
     LET t == textOf(procs[p].uid) IN
     (/\ Extracted(p)
      /\ matchingStages(t) # {} /\ firstStage(t) <= 3
      /\ Len(labelledRun(t, firstStage(t))) <= 8)
       => procs[p].code = labelledRun(t, firstStage(t))

\* C18: for a message whose combined text matches none of the five stages,
\* no codes row is created or handed to the store, and no mark-as-read is
\* issued: the message stays unread.
C18_NoCodeNoRowNoMark ==
  \A p \in Procs :
     (procs[p].uid # 0 /\ matchingStages(textOf(procs[p].uid)) = {})
       => /\ procs[p].code = NoCode /\ procs[p].read = "no"
          /\ \A c \in codes : c.email_id # p
          /\ \A i \in inserts : i.email_id # p
          /\ \A c \in Conns : procs[p].uid \notin Range(conn[c].flag)
          /\ ~mbox[procs[p].uid].seen

\* "Hello, order #12345 shipped" has been stored and extractCode has run on
\* it.
C18_Witness ==
  \E p \in Procs :
     /\ Extracted(p)
     /\ matchingStages(textOf(procs[p].uid)) = {}
     /\ Len(mbox[procs[p].uid].body) = 27 /\ mbox[procs[p].uid].body[14] = "#"

(***************************************************************************)
(* The serialisation and the guards of the watcher's commands.             *)
(***************************************************************************)

\* C19: on one connection at most one search/fetch sequence started by
\* fetchLatestEmail is outstanding at any time: a 'mail' event that arrives
\* while a search or a fetch is under way starts no second one. Outstanding
\* on Imap object c are its searches not yet answered and its fetches not yet
\* delivered.
C19_OneIngestionInFlight ==
  \A c \in Conns : conn[c].srch + Len(conn[c].ftch) <= 1

\* C20: a new-mail trigger, a heartbeat tick or a mark-as-read step that runs
\* while the watcher is not connected is a no-op: it puts no command on an
\* Imap object (conn holds the commands pending on each), raises no error
\* and changes no connection state. The mark-as-read step is extractCode with
\* a code to record.
C20_NotConnectedGuard ==
  [][(/\ ~svc.isConnected
      /\ \/ \E c \in Conns : MailEvent(c)
         \/ HeartbeatTick
         \/ \E p \in Procs : extractCode(p) /\ procs'[p].code # NoCode) =>
       /\ crashed' = crashed
       /\ svc' = svc /\ conn' = conn /\ timers' = timers
       /\ \A p \in Procs : procs'[p].read = "threw" => procs[p].read = "threw"]_vars

(***************************************************************************)
(* The watcher's timers and status flags, checked under SpecWatcher.       *)
(***************************************************************************)

\* C21: timers follow the connection. A fault taken from the connected state
\* cancels the heartbeat timer and releases the Imap object; in every state
\* there is at most one heartbeat timer, and there is one only while the
\* watcher is connected, late openBox callbacks of a torn-down connection
\* included. A fault is a step that runs handleConnectionError or
\* handleConnectionEnd: an 'error' or 'end' listener of connect(), or the
\* error branch of a search, fetch or NOOP callback.
C21_TimersFollowConnection ==
  /\ [](intervals <= 1 /\ (intervals > 0 => svc.isConnected))
  /\ [][(/\ svc.isConnected
          /\ \E c \in Conns :
                \/ ImapError(c) /\ "error" \in conn[c].lis
                \/ ImapEnd(c) /\ "end" \in conn[c].lis
                \/ SearchError(c)
                \/ FetchError(c)
                \/ NoopError(c)
          /\ ~crashed')
         => /\ ~svc'.isConnected /\ svc'.imap = NoImap
            /\ ~svc'.heartbeatInterval /\ intervals' = 0]_vars

\* C22: connected means listening. Once the watcher is connected it
\* eventually listens (INBOX open, 'mail' handler registered, heartbeat
\* running) or leaves the connected state through a fault that schedules a
\* reconnect; it does not stay connected without handler and heartbeat.
C22_ConnectedMeansListening ==
  svc.isConnected ~>
    \/ /\ svc.imap # NoImap
       /\ conn[svc.imap].boxOpen /\ conn[svc.imap].mail > 0
       /\ svc.heartbeatInterval /\ intervals > 0
    \/ ~svc.isConnected /\ svc.isReconnecting

(***************************************************************************)
(* The order of the store's writes and the server's, under SpecIngest.     *)
(***************************************************************************)

\* A code of the message with that uid is in the store.
persisted(uid) ==
  \E e \in emails : e.uid = uid /\ \E c \in codes : c.email_id = e.id

\* C23: read-mark follows persistence. While no row is old enough for
\* retention to delete, a mark-as-read has been issued for a message only if
\* its code is in the store: no message is marked read, or about to be,
\* while its code is missing because insertCode has not run or has failed.
\* The mark-as-read has been issued when addFlags is pending on an Imap
\* object or the server has set \Seen.
C23_ReadMarkFollowsPersistence ==
  now.d < retentionDays =>
    \A uid \in 1..Len(mbox) :
       (mbox[uid].seen \/ \E c \in Conns : uid \in Range(conn[c].flag))
         => persisted(uid)

(***************************************************************************)
(* Retrieval filtered by sender, checked under SpecQuery.                  *)
(***************************************************************************)

\* Request k is a call of getLastCodeByFromAddress.
BySender(k) == calls[k].pc # "idle" /\ calls[k].kind = "from"

C25_ReferentialIntegrity ==
  /\ [](\A c \in codes : \E e \in emails : e.id = c.email_id)
  /\ [][(job.pc = "emails" /\ job'.pc = "idle")
          => job'.removed = Cardinality(emails \ emails')]_vars

\* cleanupOldEmails stands between its two DELETEs: the codes of a message
\* past retention are deleted and the message is not yet, while the code of a
\* message that has just arrived is in the store.
C25_Witness ==
  /\ job.pc = "emails"
  /\ \E e \in emails : e.created_at = OldStamp /\ \A c \in codes : c.email_id # e.id
  /\ \E c \in codes : c.created_at.d = 0

\* C26: the consumed flag is one-way. A row added to codes has used = FALSE;
\* no step of retrieval, ingestion, cleanup or the migration of createTables
\* takes a row's used flag from TRUE back to FALSE; and a row changes only
\* by the flip from FALSE to TRUE, or is deleted. (A row of a table made
\* before the column existed gets the column, holding FALSE.)
C26_ConsumedIsOneWay ==
  [][/\ \A c \in codes, x \in codes' :
          x.id = c.id =>
            IF "used" \in DOMAIN c
            THEN /\ c.used => x.used
                 /\ x = c \/ (~c.used /\ x = [c EXCEPT !.used = TRUE])
            ELSE \/ x = c
                 \/ /\ DOMAIN x = DOMAIN c \cup {"used"}
                    /\ ~x.used
                    /\ \A f \in DOMAIN c : x[f] = c[f]
     /\ \A x \in codes' :
          (\A c \in codes : c.id # x.id) => ~x.used]_vars

\* After the migration and the cleanup of startService, the code of a message
\* that arrived in this run has been consumed.
C26_Witness ==
  /\ main = "scheduled"
  /\ \E c \in codes : c.used /\ c.created_at.d = 0

(***************************************************************************)
(* Callbacks of an earlier connection, checked under SpecWatcher.          *)
(***************************************************************************)

\* C27: an error delivered by a search, fetch or NOOP callback of a
\* connection already torn down leaves a later, established connection as
\* it is: the watcher stays connected to it, keeps its heartbeat, and
\* schedules no reconnect.
C27_StaleCallbacksHarmless ==
  [][\A c \in Conns :
       (/\ svc.isConnected /\ svc.imap # NoImap /\ svc.imap # c
        /\ SearchError(c) \/ FetchError(c) \/ NoopError(c))
         => /\ svc' = svc
            /\ conn'[svc.imap] = conn[svc.imap]
            /\ timers' = timers /\ intervals' = intervals]_vars

(***************************************************************************)
(* The status flags and the attempt counter, checked under SpecWatcher.    *)
(***************************************************************************)

\* C28: the status flags are consistent. isConnected and isReconnecting are
\* never both true; isConnected implies that the watcher holds an Imap
\* object; isReconnecting implies that a reconnect timer is pending or a
\* reconnect attempt is in progress (an Imap object made by reconnect() is in
\* its handshake with the watcher listening).
C28_StatusFlagsConsistent ==
  ~crashed =>
    /\ ~(svc.isConnected /\ svc.isReconnecting)
    /\ svc.isConnected => svc.imap # NoImap
    /\ svc.isReconnecting =>
         \/ timers # <<>>
         \/ \E c \in Conns : conn[c].by = "reconnect" /\ Attempting(c)

\* The connect() calls made since the 'ready' handler last ran, the call that
\* led to it (or the one of startService) counted in: one, and one for each
\* reconnect timer that was set since and has fired.
attemptsSinceReady == (IF main = "init" THEN 0 ELSE 1) + armed - Len(timers)

\* C29: the attempt counter stays within 0..10, and between two successful
\* connections at most 11 connection attempts are made: the one that failed
\* first and 10 reconnects.
C29_AttemptCounterBounds ==
  /\ svc.reconnectAttempts \in 0..maxReconnectAttempts
  /\ attemptsSinceReady <= maxReconnectAttempts + 1

\* The budget is used up: the counter stands at 10 and the eleventh attempt
\* since startService has been made.
C29_Witness ==
  /\ svc.reconnectAttempts = maxReconnectAttempts
  /\ attemptsSinceReady = maxReconnectAttempts + 1

(***************************************************************************)
(* Ingestion of every message, checked under SpecArrive.                   *)
(***************************************************************************)

\* C30: every code-bearing message is eventually ingested. With the watcher
\* connected and notifications handled again and again, each message that
\* carries a code is eventually in the store with its code, also when a newer
\* unread message without a code is above it in the search results.
C30_EveryCodeIngested ==
  \A uid \in 1..MaxMsgs :
     (/\ uid <= Len(mbox)
      /\ extractedCode(combinedText(mbox[uid].body, mbox[uid].subject)) # NoCode)
       ~> persisted(uid)

====
